---------------------------- MODULE Spec2Model ----------------------------
(***************************************************************************)
(* Model of the RED-V lab 8 support package: the Arduino-style GPIO pin    *)
(* API (EasyREDVIO.h, EasyREDVIO_ThingPlus.h) and the SPI1 driver with the *)
(* LIS3DH accelerometer demo (lab8starter.c, REDV_SPI.h).                  *)
(*                                                                         *)
(* A 32-bit GPIO register is the set of the positions of its set bits      *)
(* (a subset of 0..31): 1 << k is {k}, x |= m is x \cup m, x &= ~m is      *)
(* x \ m.  SPI bytes and words are naturals reduced to their C width.      *)
(***************************************************************************)
EXTENDS Integers, Sequences, FiniteSets, TLC

VARIABLES
    gpio,       \* the GPIO0 register block
    g_pre,      \* GPIO0 as it was when the last GPIO call was entered
    g_call,     \* the last GPIO call: header variant, function, arguments, result
    g_calls,    \* number of GPIO calls made so far
    hdr,        \* the GPIO header the program is built against
    spi,        \* the SPI1 register block (the fields software writes)
    txfifo,     \* SPI1 transmit FIFO (written through txdata)
    rxfifo,     \* SPI1 receive FIFO (read through rxdata)
    xfer,       \* accesses so far: writes of txdata (.tx), reads of rxdata (.rx)
    per,        \* the accelerometer's bus state: selected, phase, latched address
    regs,       \* the accelerometer's register file
    plog,       \* the register accesses the accelerometer has carried out
    call,       \* the driver call in progress or last returned, with its result
    prev_call,  \* the driver call before it
    s_pre,      \* SPI1 and GPIO0 registers as they were when `call` was entered
    f16,        \* activation of spiSendReceive16: pc and locals
    f8,         \* activation of spiSendReceive: pc and locals
    trace,      \* register accesses and byte transfers made by `call`, in order
    calls,      \* number of transfer calls made by the test harness
    mainf       \* activation of main: pc and locals ("off": no main, a harness calls)

gvars == <<gpio, g_pre, g_call, g_calls, hdr>>

svars == <<spi, txfifo, rxfifo, xfer, per, regs, plog, call, prev_call, s_pre,
           f16, f8, trace, calls, mainf>>

vars == <<gpio, g_pre, g_call, g_calls, hdr, spi, txfifo, rxfifo, xfer, per,
          regs, plog, call, prev_call, s_pre, f16, f8, trace, calls, mainf>>

-----------------------------------------------------------------------------
(* Bounds of the model *)

\* GPIO calls explored from each initial register state
MaxGpioCalls == 2

\* pin arguments are drawn from 0..MaxPin
MaxPin == 20

\* driver calls the harness makes
MaxCalls == 2

\* iterations of main's while(1) loop that are followed
MaxLoops == 1

-----------------------------------------------------------------------------
(* GPIO: constants and the register block *)

LOW == 0
HIGH == 1

INPUT == 0
OUTPUT == 1
GPIO_IOF0 == 2

WordBits == 0..31

GpioRegs ==
    {"input_val", "input_en", "output_en", "output_val", "pue", "ds",
     "rise_ie", "rise_ip", "fall_ie", "fall_ip", "high_ie", "high_ip",
     "low_ie", "low_ip", "iof_en", "iof_sel", "out_xor"}

\* Register images a GPIO call may find: the reset state (all zero) and a
\* mixed image that differs from bit to bit and from register to register.
EvenBits == {b \in WordBits : b % 2 = 0}
OddBits == WordBits \ EvenBits

GpioResetImage == [r \in GpioRegs |-> {}]

GpioMixedImage ==
    [r \in GpioRegs |-> IF r \in {"input_en", "iof_en", "output_val", "input_val"}
                        THEN OddBits ELSE EvenBits]

GpioImages == {GpioResetImage, GpioMixedImage}

\* The values of the int expression (1 << k).  For 0 <= k <= 30 it is the
\* word with bit k set.  Any other k (a negative count, a count >= the
\* width, or a shift into the sign bit) is undefined in C: builds produce
\* either the count taken modulo 32 (RISC-V sll, x86) or zero (constant
\* folding, ARM).
ShiftLeftOne(k) ==
    IF k \in 0..30 THEN {{k}} ELSE {{}, {k % 32}}

-----------------------------------------------------------------------------
(* EasyREDVIO.h: pin numbers are Arduino pin names D0..D19 *)

\* int digitalPinMapping[20], indexed from 0
digitalPinMapping ==
    <<16, 17, 18, 19, 20, 21, 22, 23, 0, 1, 2, 3, 4, 5, -1, 9, 10, 11, 12, 13>>

pinToGPIO(pin) ==
    IF (pin # 14) /\ (pin < 20) THEN digitalPinMapping[pin + 1] ELSE -1

\* (mutant) OUTPUT leaves the hardware function enabled
pinModeBody_keepiof(g, gpio_pin, function) ==
    CASE function = INPUT ->
            { [g EXCEPT !.input_en = @ \cup m] : m \in ShiftLeftOne(gpio_pin) }
      [] function = OUTPUT ->
            { [g EXCEPT !.output_en = @ \cup m1] : m1 \in ShiftLeftOne(gpio_pin) }
      [] function = GPIO_IOF0 ->
            { [g EXCEPT !.iof_sel = @ \ m1, !.iof_en = @ \cup m2] :
                  m1 \in ShiftLeftOne(gpio_pin), m2 \in ShiftLeftOne(gpio_pin) }
      [] OTHER -> {g}

\* The switch of pinMode on a GPIO bit number: the set of register blocks
\* the call can leave (one for every defined shift).
pinModeBody(g, gpio_pin, function) ==
    CASE function = INPUT ->
            { [g EXCEPT !.input_en = @ \cup m] : m \in ShiftLeftOne(gpio_pin) }
      [] function = OUTPUT ->
            { [g EXCEPT !.output_en = @ \cup m1, !.iof_en = @ \ m2] :
                  m1 \in ShiftLeftOne(gpio_pin), m2 \in ShiftLeftOne(gpio_pin) }
      [] function = GPIO_IOF0 ->
            { [g EXCEPT !.iof_sel = @ \ m1, !.iof_en = @ \cup m2] :
                  m1 \in ShiftLeftOne(gpio_pin), m2 \in ShiftLeftOne(gpio_pin) }
      [] OTHER -> {g}

\* (mutant) the mask assigned to output_val instead of or-ed / and-ed in
digitalWriteBody_assign(g, gpio_pin, val) ==
    IF val # 0
    THEN { [g EXCEPT !.output_val = m] : m \in ShiftLeftOne(gpio_pin) }
    ELSE { [g EXCEPT !.output_val = WordBits \ m] : m \in ShiftLeftOne(gpio_pin) }

digitalWriteBody(g, gpio_pin, val) ==
    IF val # 0
    THEN { [g EXCEPT !.output_val = @ \cup m] : m \in ShiftLeftOne(gpio_pin) }
    ELSE { [g EXCEPT !.output_val = @ \ m] : m \in ShiftLeftOne(gpio_pin) }

\* (x >> k) & 0x1 on the unsigned input_val.  A count outside 0..31 is
\* undefined: the count modulo 32, or all bits shifted out.
digitalReadBody(g, gpio_pin) ==
    IF gpio_pin \in WordBits
    THEN { IF gpio_pin \in g.input_val THEN 1 ELSE 0 }
    ELSE { IF (gpio_pin % 32) \in g.input_val THEN 1 ELSE 0, 0 }

pinMode(g, pin, function) == pinModeBody(g, pinToGPIO(pin % 32), function)

digitalWrite(g, pin, val) == digitalWriteBody(g, pinToGPIO(pin % 32), val)

digitalRead(g, pin) == digitalReadBody(g, pinToGPIO(pin % 32))

-----------------------------------------------------------------------------
(* EasyREDVIO_ThingPlus.h: pin numbers are FE310 GPIO bit numbers *)

pinMode_TP(g, pin, function) == pinModeBody(g, pin, function)

digitalWrite_TP(g, pin, val) == digitalWriteBody(g, pin, val)

digitalRead_TP(g, pin) == digitalReadBody(g, pin)

-----------------------------------------------------------------------------
(* GPIO calls made by a program built against either header *)

Headers == {"EasyREDVIO", "ThingPlus"}

PinArgs == 0..MaxPin
ModeArgs == {INPUT, OUTPUT, GPIO_IOF0, 3}
ValArgs == {LOW, HIGH}

NoGpioCall == [fn |-> "none", hdr |-> "none", pin |-> 0, arg |-> 0, ret |-> 0]

Do_pinMode(pin, function) ==
    /\ g_calls < MaxGpioCalls
    /\ gpio' \in (IF hdr = "EasyREDVIO" THEN pinMode(gpio, pin, function)
                                         ELSE pinMode_TP(gpio, pin, function))
    /\ g_pre' = gpio
    /\ g_call' = [fn |-> "pinMode", hdr |-> hdr, pin |-> pin, arg |-> function, ret |-> 0]
    /\ g_calls' = g_calls + 1
    /\ UNCHANGED <<hdr, svars>>

Do_digitalWrite(pin, val) ==
    /\ g_calls < MaxGpioCalls
    /\ gpio' \in (IF hdr = "EasyREDVIO" THEN digitalWrite(gpio, pin, val)
                                         ELSE digitalWrite_TP(gpio, pin, val))
    /\ g_pre' = gpio
    /\ g_call' = [fn |-> "digitalWrite", hdr |-> hdr, pin |-> pin, arg |-> val, ret |-> 0]
    /\ g_calls' = g_calls + 1
    /\ UNCHANGED <<hdr, svars>>

Do_digitalRead(pin) ==
    /\ g_calls < MaxGpioCalls
    /\ \E r \in (IF hdr = "EasyREDVIO" THEN digitalRead(gpio, pin)
                                        ELSE digitalRead_TP(gpio, pin)) :
          g_call' = [fn |-> "digitalRead", hdr |-> hdr, pin |-> pin, arg |-> 0, ret |-> r]
    /\ gpio' = gpio
    /\ g_pre' = gpio
    /\ g_calls' = g_calls + 1
    /\ UNCHANGED <<hdr, svars>>

-----------------------------------------------------------------------------
(* C integer arithmetic on naturals *)

RECURSIVE BitAnd(_, _)
BitAnd(x, y) ==
    IF x = 0 \/ y = 0 THEN 0
    ELSE (x % 2) * (y % 2) + 2 * BitAnd(x \div 2, y \div 2)

RECURSIVE BitOr(_, _)
BitOr(x, y) ==
    IF x = 0 THEN y
    ELSE IF y = 0 THEN x
    ELSE (IF (x % 2) + (y % 2) > 0 THEN 1 ELSE 0) + 2 * BitOr(x \div 2, y \div 2)

Shl(x, n) == x * (2 ^ n)
Shr(x, n) == x \div (2 ^ n)

\* conversion to uint8_t, uint16_t, and to an n-bit bitfield
U8(x) == x % 256
U16(x) == x % 65536
Field(x, n) == x % (2 ^ n)

\* conversion of a 16-bit pattern to int16_t
I16(x) == IF U16(x) >= 32768 THEN U16(x) - 65536 ELSE U16(x)

-----------------------------------------------------------------------------
(* REDV_SPI.h: the SPI1 register block *)

\* csmode.mode values
CS_AUTO == 0
CS_HOLD == 2
CS_OFF == 3

\* The fields of the SPI struct that software writes (ip, txdata and rxdata
\* are the hardware's side: see ip_txwm, ip_rxwm, txfifo, rxfifo).
SpiReset ==
    [ div |-> 3, pha |-> 0, pol |-> 0, csid |-> 0, csdef |-> 1, csmode |-> CS_AUTO,
      cssck |-> 1, sckcs |-> 1, intercs |-> 1, interxfr |-> 0,
      proto |-> 0, endian |-> 0, dir |-> 0, len |-> 8,
      txmark |-> 0, rxmark |-> 0, fctrl_en |-> 0, ffmt |-> 0,
      ie_txwm |-> 0, ie_rxwm |-> 0 ]

\* A register image left by other software: every field differs from what
\* spiInit writes.
SpiOther ==
    [ div |-> 4095, pha |-> 1, pol |-> 0, csid |-> 1, csdef |-> 1, csmode |-> CS_OFF,
      cssck |-> 255, sckcs |-> 255, intercs |-> 255, interxfr |-> 255,
      proto |-> 2, endian |-> 1, dir |-> 1, len |-> 15,
      txmark |-> 2, rxmark |-> 0, fctrl_en |-> 1, ffmt |-> 1,
      ie_txwm |-> 0, ie_rxwm |-> 0 ]


\* ip.txwm: the transmit FIFO holds fewer entries than txmark.
ip_txwm == IF Len(txfifo) < spi.txmark THEN 1 ELSE 0

\* ip.rxwm: the receive FIFO holds more entries than rxmark.
ip_rxwm == IF Len(rxfifo) > spi.rxmark THEN 1 ELSE 0

-----------------------------------------------------------------------------
(* lab8starter.c: spiInit *)

\* The four pinMode calls of spiInit (lab8starter.c includes
\* EasyREDVIO_ThingPlus.h, so 2..5 are GPIO bit numbers).  No shift is
\* undefined here, so each call has one outcome.
RECURSIVE spiInitPins(_, _)
spiInitPins(g, pins) ==
    IF pins = <<>> THEN g
    ELSE spiInitPins(CHOOSE g2 \in pinMode_TP(g, Head(pins), GPIO_IOF0) : TRUE,
                     Tail(pins))

\* (mutant) spiInit without line 31: csmode keeps what it held
spiInitRegs_nocsmode(s, clkdivide, cpol, cpha) ==
    [ s EXCEPT !.div = Field(clkdivide, 12),
               !.pol = Field(cpol, 1),
               !.pha = Field(cpha, 1),
               !.csid = 0,
               !.proto = Field(0, 2),
               !.endian = Field(0, 1),
               !.dir = Field(0, 1),
               !.len = Field(8, 4),
               !.fctrl_en = Field(0, 1),
               !.interxfr = Field(0, 8),
               !.cssck = Field(0, 8),
               !.sckcs = Field(0, 8),
               !.ie_rxwm = Field(1, 1),
               !.ie_txwm = Field(1, 1),
               !.rxmark = Field(0, 3),
               !.txmark = Field(1, 3) ]

\* The register writes of spiInit, in order, each truncated to its bitfield.
spiInitRegs(s, clkdivide, cpol, cpha) ==
    [ s EXCEPT !.div = Field(clkdivide, 12),
               !.pol = Field(cpol, 1),
               !.pha = Field(cpha, 1),
               !.csid = 0,
               !.csmode = Field(2, 2),
               !.proto = Field(0, 2),
               !.endian = Field(0, 1),
               !.dir = Field(0, 1),
               !.len = Field(8, 4),
               !.fctrl_en = Field(0, 1),
               !.interxfr = Field(0, 8),
               !.cssck = Field(0, 8),
               !.sckcs = Field(0, 8),
               !.ie_rxwm = Field(1, 1),
               !.ie_txwm = Field(1, 1),
               !.rxmark = Field(0, 3),
               !.txmark = Field(1, 3) ]

\* The register images a run starts from: the reset values, what other
\* software left, and what an earlier spiInit(10, 1, 1) left.
SpiImages == {SpiReset, SpiOther, spiInitRegs(SpiReset, 10, 1, 1)}

-----------------------------------------------------------------------------
(* The bus and the LIS3DH accelerometer behind it *)

WHO_AM_I == 15
WHO_AM_I_VALUE == 51

PerIdle == [sel |-> FALSE, phase |-> "addr", rw |-> "w", reg |-> 0]

\* Register file at power-up: the identity register, sample X/Y data in
\* 0x28..0x2B, zero elsewhere.
RegsInit ==
    [r \in 0..63 |-> CASE r = WHO_AM_I -> WHO_AM_I_VALUE
                       [] r = 40 -> 16
                       [] r = 41 -> 255
                       [] r = 42 -> 240
                       [] r = 43 -> 127
                       [] OTHER -> 0]

\* What MISO carries while the accelerometer is not driving a register
\* value (address phase, write data, not selected).
DontCare == {0, 255}

\* Writing csmode (or csid) with a different value deasserts a held chip
\* select, which ends the accelerometer's transaction.
AfterCsWrite(p, old, new) == IF old # new THEN PerIdle ELSE p

\* One 8-bit frame with byte b on MOSI.  Result: the accelerometer's next
\* state, register file and log, and the byte shifted in on MISO.  With
\* csmode OFF the device is not selected.  The first byte after chip select
\* is asserted is RW (bit 7), MS (bit 6), address (bits 5..0); the bytes
\* after it are data.  In AUTO mode chip select is released after the frame.
Frame(b) ==
    IF spi.csmode = CS_OFF
    THEN { [per |-> per, regs |-> regs, plog |-> plog, miso |-> r] : r \in DontCare }
    ELSE
      LET after(p) == IF spi.csmode = CS_HOLD THEN p ELSE PerIdle
      IN  IF per.phase = "addr"
          THEN { [per |-> after([sel |-> TRUE, phase |-> "data",
                                 rw |-> IF b >= 128 THEN "r" ELSE "w",
                                 reg |-> b % 64]),
                  regs |-> regs, plog |-> plog, miso |-> r] : r \in DontCare }
          ELSE IF per.rw = "r"
          THEN { [per |-> after(per), regs |-> regs,
                  plog |-> Append(plog, [rw |-> "r", reg |-> per.reg, val |-> regs[per.reg]]),
                  miso |-> regs[per.reg]] }
          ELSE { [per |-> after(per), regs |-> [regs EXCEPT ![per.reg] = b],
                  plog |-> Append(plog, [rw |-> "w", reg |-> per.reg, val |-> b]),
                  miso |-> r] : r \in DontCare }

\* The controller shifts the oldest transmit FIFO entry out and queues the
\* byte shifted in.
HW_Frame ==
    /\ txfifo # <<>>
    /\ \E o \in Frame(Head(txfifo)) :
          /\ per' = o.per
          /\ regs' = o.regs
          /\ plog' = o.plog
          /\ rxfifo' = Append(rxfifo, o.miso)
    /\ txfifo' = Tail(txfifo)
    /\ UNCHANGED <<gvars, xfer, spi, call, prev_call, s_pre, f16, f8, trace, calls, mainf>>

-----------------------------------------------------------------------------
(* lab8starter.c: the transfer functions *)

Ev(e, v) == [ev |-> e, v |-> v]

F8Off == [pc |-> "off", send |-> 0]
F16Off == [pc |-> "off", data |-> 0, char1 |-> 0, char2 |-> 0, rec |-> 0]

NoCall == [fn |-> "none", a |-> 0, b |-> 0, c |-> 0, ret |-> 0, st |-> "none"]

\* A caller (main or the harness) enters driver function fn.
Enter(fn, a, b, c) ==
    /\ call.st # "run"
    /\ call' = [fn |-> fn, a |-> a, b |-> b, c |-> c, ret |-> 0, st |-> "run"]
    /\ prev_call' = call
    /\ s_pre' = [spi |-> spi, gpio |-> gpio]
    /\ trace' = <<>>

\* line 79: (data & 0xFF00) >> 8, converted to the uint8_t parameter
HighByte(data) == U8(Shr(BitAnd(data, 65280), 8))

\* line 80: data & 0x00FF
LowByte(data) == U8(BitAnd(data, 255))

\* (mutant) the two received bytes composed little-endian
Compose_swapped(char1, char2) == U16(BitOr(Shl(char2, 8), char1))

\* line 81: rec = (char1 << 8) | char2
Compose(char1, char2) == U16(BitOr(Shl(char1, 8), char2))

\* line 89: address << 8 | value, converted to the uint16_t parameter
spiWriteWord(address, value) == U16(BitOr(Shl(address, 8), value))

\* (mutant) the read marker left out
spiReadWord_nomarker(address) == U16(Shl(address, 8))

\* line 94: address << 8 | (1 << 15), converted to the uint16_t parameter
spiReadWord(address) == U16(BitOr(Shl(address, 8), Shl(1, 15)))

\* spiSendReceive is entered with argument send (from spiSendReceive16 or
\* from the caller).
Begin8(send) ==
    /\ f8' = [pc |-> "L64", send |-> U8(send)]
    /\ trace' = Append(trace, Ev("call8", U8(send)))

\* (mutant) line 64 without the loop: the flag is read once and ignored
SSR_L64_nowait ==
    /\ f8.pc = "L64"
    /\ f8' = [f8 EXCEPT !.pc = "L65"]
    /\ trace' = Append(trace, Ev("txwm", ip_txwm))
    /\ UNCHANGED <<gvars, xfer, spi, txfifo, rxfifo, per, regs, plog, call, prev_call,
                   s_pre, f16, calls, mainf>>

\* line 64: while(!SPI1->ip.txwm); the loop is left on reading the flag set
SSR_L64 ==
    /\ f8.pc = "L64"
    /\ ip_txwm = 1
    /\ f8' = [f8 EXCEPT !.pc = "L65"]
    /\ trace' = Append(trace, Ev("txwm", ip_txwm))
    /\ UNCHANGED <<gvars, xfer, spi, txfifo, rxfifo, per, regs, plog, call, prev_call,
                   s_pre, f16, calls, mainf>>

\* line 65: SPI1->txdata.data = send
SSR_L65 ==
    /\ f8.pc = "L65"
    /\ txfifo' = Append(txfifo, Field(f8.send, 8))
    /\ f8' = [f8 EXCEPT !.pc = "L66"]
    /\ trace' = Append(trace, Ev("tx", Field(f8.send, 8)))
    /\ xfer' = [xfer EXCEPT !.tx = @ + 1]
    /\ UNCHANGED <<gvars, spi, rxfifo, per, regs, plog, call, prev_call,
                   s_pre, f16, calls, mainf>>

\* (mutant) line 66 with a timeout: the loop is given up while the flag is
\* still clear and spiSendReceive returns an error value
SSR_L66_timeout ==
    /\ f8.pc = "L66"
    /\ IF ip_rxwm = 1
       THEN /\ f8' = [f8 EXCEPT !.pc = "L67"]
            /\ trace' = Append(trace, Ev("rxwm", ip_rxwm))
            /\ UNCHANGED <<call, f16>>
       ELSE /\ f8' = F8Off
            /\ trace' = Append(trace, Ev("ret8", 255))
            /\ CASE f16.pc = "L79c" ->
                       /\ f16' = [f16 EXCEPT !.char1 = 255, !.pc = "L80"]
                       /\ UNCHANGED call
                 [] f16.pc = "L80c" ->
                       /\ f16' = [f16 EXCEPT !.char2 = 255, !.pc = "L81"]
                       /\ UNCHANGED call
                 [] OTHER ->
                       /\ call' = [call EXCEPT !.ret = 255, !.st = "done"]
                       /\ UNCHANGED f16
    /\ UNCHANGED <<gvars, xfer, spi, txfifo, rxfifo, per, regs, plog, prev_call, s_pre,
                   calls, mainf>>

\* line 66: while(!SPI1->ip.rxwm);
SSR_L66 ==
    /\ f8.pc = "L66"
    /\ ip_rxwm = 1
    /\ f8' = [f8 EXCEPT !.pc = "L67"]
    /\ trace' = Append(trace, Ev("rxwm", ip_rxwm))
    /\ UNCHANGED <<gvars, xfer, spi, txfifo, rxfifo, per, regs, plog, call, prev_call,
                   s_pre, f16, calls, mainf>>

\* The value spiSendReceive16 hands back to its caller: spiWrite drops it,
\* spiRead converts it to uint8_t.
Ret16(fn, rec) ==
    CASE fn = "spiWrite" -> 0
      [] fn = "spiRead" -> U8(rec)
      [] OTHER -> rec
\* (mutant) line 67 without the read of rxdata: the call returns a constant
\* and leaves the response in the receive FIFO
SSR_L67_noread ==
    /\ f8.pc = "L67"
    /\ rxfifo # <<>>
    /\ LET v == 0
       IN  /\ trace' = Append(trace, Ev("ret8", v))
           /\ f8' = F8Off
           /\ CASE f16.pc = "L79c" ->
                      /\ f16' = [f16 EXCEPT !.char1 = v, !.pc = "L80"]
                      /\ UNCHANGED call
                [] f16.pc = "L80c" ->
                      /\ f16' = [f16 EXCEPT !.char2 = v, !.pc = "L81"]
                      /\ UNCHANGED call
                [] OTHER ->
                      /\ call' = [call EXCEPT !.ret = v, !.st = "done"]
                      /\ UNCHANGED f16
    /\ UNCHANGED <<gvars, xfer, spi, txfifo, rxfifo, per, regs, plog, prev_call,
                   s_pre, calls, mainf>>


\* line 67: return SPI1->rxdata.data; the read dequeues the receive FIFO and
\* the byte goes to the caller (char1 or char2 of spiSendReceive16, or the
\* result of a direct call).
SSR_L67 ==
    /\ f8.pc = "L67"
    /\ rxfifo # <<>>
    /\ LET v == U8(Head(rxfifo))
       IN  /\ rxfifo' = Tail(rxfifo)
           /\ xfer' = [xfer EXCEPT !.rx = @ + 1]
           /\ trace' = Append(Append(trace, Ev("rx", Head(rxfifo))), Ev("ret8", v))
           /\ f8' = F8Off
           /\ CASE f16.pc = "L79c" ->
                      /\ f16' = [f16 EXCEPT !.char1 = v, !.pc = "L80"]
                      /\ UNCHANGED call
                [] f16.pc = "L80c" ->
                      /\ f16' = [f16 EXCEPT !.char2 = v, !.pc = "L81"]
                      /\ UNCHANGED call
                [] OTHER ->
                      /\ call' = [call EXCEPT !.ret = v, !.st = "done"]
                      /\ UNCHANGED f16
    /\ UNCHANGED <<gvars, spi, txfifo, per, regs, plog, prev_call, s_pre, calls, mainf>>

\* spiSendReceive16 is entered with argument data.
Begin16(data) ==
    f16' = [pc |-> "L78", data |-> U16(data), char1 |-> 0, char2 |-> 0, rec |-> 0]

\* (mutant) line 78 left out: csmode keeps what the caller left
S16_L78_nohold ==
    /\ f16.pc = "L78"
    /\ f16' = [f16 EXCEPT !.pc = "L79"]
    /\ UNCHANGED <<gvars, xfer, spi, txfifo, rxfifo, per, regs, plog, call, prev_call,
                   s_pre, f8, trace, calls, mainf>>

\* line 78: SPI1->csmode.mode = 2
S16_L78 ==
    /\ f16.pc = "L78"
    /\ spi' = [spi EXCEPT !.csmode = Field(2, 2)]
    /\ per' = AfterCsWrite(per, spi.csmode, Field(2, 2))
    /\ f16' = [f16 EXCEPT !.pc = "L79"]
    /\ trace' = Append(trace, Ev("csmode", Field(2, 2)))
    /\ UNCHANGED <<gvars, xfer, txfifo, rxfifo, regs, plog, call, prev_call, s_pre,
                   f8, calls, mainf>>

\* line 79: char1 = spiSendReceive((data & 0xFF00) >> 8), the call
S16_L79 ==
    /\ f16.pc = "L79"
    /\ Begin8(HighByte(f16.data))
    /\ f16' = [f16 EXCEPT !.pc = "L79c"]
    /\ UNCHANGED <<gvars, xfer, spi, txfifo, rxfifo, per, regs, plog, call, prev_call,
                   s_pre, calls, mainf>>

\* line 80: char2 = spiSendReceive(data & 0x00FF), the call
S16_L80 ==
    /\ f16.pc = "L80"
    /\ Begin8(LowByte(f16.data))
    /\ f16' = [f16 EXCEPT !.pc = "L80c"]
    /\ UNCHANGED <<gvars, xfer, spi, txfifo, rxfifo, per, regs, plog, call, prev_call,
                   s_pre, calls, mainf>>

\* line 81: rec = (char1 << 8) | char2
S16_L81 ==
    /\ f16.pc = "L81"
    /\ f16' = [f16 EXCEPT !.rec = Compose(f16.char1, f16.char2), !.pc = "L82"]
    /\ UNCHANGED <<gvars, xfer, spi, txfifo, rxfifo, per, regs, plog, call, prev_call,
                   s_pre, f8, trace, calls, mainf>>

\* (mutant) line 82 left out: chip select stays held after the word
S16_L82_noauto ==
    /\ f16.pc = "L82"
    /\ f16' = [f16 EXCEPT !.pc = "L84"]
    /\ UNCHANGED <<gvars, xfer, spi, txfifo, rxfifo, per, regs, plog, call, prev_call,
                   s_pre, f8, trace, calls, mainf>>

\* line 82: SPI1->csmode.mode = 0
S16_L82 ==
    /\ f16.pc = "L82"
    /\ spi' = [spi EXCEPT !.csmode = Field(0, 2)]
    /\ per' = AfterCsWrite(per, spi.csmode, Field(0, 2))
    /\ f16' = [f16 EXCEPT !.pc = "L84"]
    /\ trace' = Append(trace, Ev("csmode", Field(0, 2)))
    /\ UNCHANGED <<gvars, xfer, txfifo, rxfifo, regs, plog, call, prev_call, s_pre,
                   f8, calls, mainf>>

\* line 84: return rec, through spiWrite (line 90) or spiRead (line 94)
\* when one of them made the call
S16_L84 ==
    /\ f16.pc = "L84"
    /\ call' = [call EXCEPT !.ret = Ret16(call.fn, f16.rec), !.st = "done"]
    /\ f16' = F16Off
    /\ trace' = Append(trace, Ev("ret16", f16.rec))
    /\ UNCHANGED <<gvars, xfer, spi, txfifo, rxfifo, per, regs, plog, prev_call, s_pre,
                   f8, calls, mainf>>

\* The five driver functions as a caller enters them.  spiInit has no
\* waits: it runs to its return.
Call_spiInit(clkdivide, cpol, cpha) ==
    /\ call.st # "run"
    /\ call' = [fn |-> "spiInit", a |-> clkdivide, b |-> cpol, c |-> cpha,
                ret |-> 0, st |-> "done"]
    /\ prev_call' = call
    /\ s_pre' = [spi |-> spi, gpio |-> gpio]
    /\ trace' = <<>>
    /\ gpio' = spiInitPins(gpio, <<2, 3, 4, 5>>)
    /\ spi' = spiInitRegs(spi, clkdivide, cpol, cpha)
    /\ per' = AfterCsWrite(per, spi.csmode, Field(2, 2))
    /\ UNCHANGED <<g_pre, g_call, g_calls, hdr, xfer, txfifo, rxfifo, regs, plog,
                   f16, f8>>

Call_spiSendReceive(send) ==
    /\ call.st # "run"
    /\ call' = [fn |-> "spiSendReceive", a |-> send, b |-> 0, c |-> 0,
                ret |-> 0, st |-> "run"]
    /\ prev_call' = call
    /\ s_pre' = [spi |-> spi, gpio |-> gpio]
    /\ f8' = [pc |-> "L64", send |-> U8(send)]
    /\ trace' = <<Ev("call8", U8(send))>>
    /\ UNCHANGED <<gvars, xfer, spi, txfifo, rxfifo, per, regs, plog, f16>>

Call_spiSendReceive16(data) ==
    /\ Enter("spiSendReceive16", data, 0, 0)
    /\ Begin16(data)
    /\ UNCHANGED <<gvars, xfer, spi, txfifo, rxfifo, per, regs, plog, f8>>

\* line 89: spiSendReceive16(address << 8 | value)
Call_spiWrite(address, value) ==
    /\ Enter("spiWrite", address, value, 0)
    /\ Begin16(spiWriteWord(U8(address), U8(value)))
    /\ UNCHANGED <<gvars, xfer, spi, txfifo, rxfifo, per, regs, plog, f8>>

\* line 94: (uint8_t) spiSendReceive16(address << 8 | (1 << 15))
Call_spiRead(address) ==
    /\ Enter("spiRead", address, 0, 0)
    /\ Begin16(spiReadWord(U8(address)))
    /\ UNCHANGED <<gvars, xfer, spi, txfifo, rxfifo, per, regs, plog, f8>>

-----------------------------------------------------------------------------
(* lab8starter.c: main *)

MainOff == [pc |-> "off", debug |-> 0, x |-> 0, y |-> 0, first |-> 0, t |-> 0, loops |-> 0]
MainStart == [MainOff EXCEPT !.pc = "L102"]

\* line 102: spiInit(10, 1, 1)
Main_L102 ==
    /\ mainf.pc = "L102"
    /\ Call_spiInit(10, 1, 1)
    /\ mainf' = [mainf EXCEPT !.pc = "L105"]
    /\ UNCHANGED calls

\* line 105: spiWrite(0x20, 0x77)
Main_L105 ==
    /\ mainf.pc = "L105"
    /\ Call_spiWrite(32, 119)
    /\ mainf' = [mainf EXCEPT !.pc = "L106"]
    /\ UNCHANGED calls

\* line 106: spiWrite(0x23, 0x88)
Main_L106 ==
    /\ mainf.pc = "L106"
    /\ Call_spiWrite(35, 136)
    /\ mainf' = [mainf EXCEPT !.pc = "L109"]
    /\ UNCHANGED calls

\* line 109: debug = spiRead(0x0F), the call
Main_L109 ==
    /\ mainf.pc = "L109"
    /\ Call_spiRead(15)
    /\ mainf' = [mainf EXCEPT !.pc = "L109r"]
    /\ UNCHANGED calls

\* line 109: debug = spiRead(0x0F), the assignment
Main_L109r ==
    /\ mainf.pc = "L109r"
    /\ call.st = "done"
    /\ mainf' = [mainf EXCEPT !.debug = U8(call.ret), !.pc = "L114"]
    /\ UNCHANGED <<gvars, xfer, spi, txfifo, rxfifo, per, regs, plog, call, prev_call,
                   s_pre, f16, f8, trace, calls>>

\* lines 114 and 115: v = spiRead(lo) | (spiRead(lo + 1) << 8).  C leaves
\* the order of the two calls open; `first` is the address read first.
Main_ReadFirst(pc, lo) ==
    /\ mainf.pc = pc
    /\ mainf.loops < MaxLoops
    /\ \E first \in {lo, lo + 1} :
          /\ Call_spiRead(first)
          /\ mainf' = [mainf EXCEPT !.first = first, !.pc = pc \o "b"]
    /\ UNCHANGED calls

Main_ReadSecond(pc, lo) ==
    /\ mainf.pc = pc \o "b"
    /\ call.st = "done"
    /\ Call_spiRead(IF mainf.first = lo THEN lo + 1 ELSE lo)
    /\ mainf' = [mainf EXCEPT !.t = call.ret, !.pc = pc \o "c"]
    /\ UNCHANGED calls

\* the value assigned to the int16_t variable
PairValue(lo, first, t, second) ==
    IF first = lo THEN I16(BitOr(t, Shl(second, 8)))
                  ELSE I16(BitOr(second, Shl(t, 8)))

Main_L114c ==
    /\ mainf.pc = "L114c"
    /\ call.st = "done"
    /\ mainf' = [mainf EXCEPT !.x = PairValue(40, mainf.first, mainf.t, call.ret),
                              !.pc = "L115"]
    /\ UNCHANGED <<gvars, xfer, spi, txfifo, rxfifo, per, regs, plog, call, prev_call,
                   s_pre, f16, f8, trace, calls>>

Main_L115c ==
    /\ mainf.pc = "L115c"
    /\ call.st = "done"
    /\ mainf' = [mainf EXCEPT !.y = PairValue(42, mainf.first, mainf.t, call.ret),
                              !.pc = "L117"]
    /\ UNCHANGED <<gvars, xfer, spi, txfifo, rxfifo, per, regs, plog, call, prev_call,
                   s_pre, f16, f8, trace, calls>>

\* line 117: delayLoop(100), then the next iteration
Main_L117 ==
    /\ mainf.pc = "L117"
    /\ mainf' = [mainf EXCEPT !.pc = "L114", !.loops = @ + 1]
    /\ UNCHANGED <<gvars, xfer, spi, txfifo, rxfifo, per, regs, plog, call, prev_call,
                   s_pre, f16, f8, trace, calls>>

Main ==
    \/ Main_L102
    \/ Main_L105
    \/ Main_L106
    \/ Main_L109
    \/ Main_L109r
    \/ Main_ReadFirst("L114", 40)
    \/ Main_ReadSecond("L114", 40)
    \/ Main_L114c
    \/ Main_ReadFirst("L115", 42)
    \/ Main_ReadSecond("L115", 42)
    \/ Main_L115c
    \/ Main_L117

-----------------------------------------------------------------------------
(* A test harness calling the driver functions with sample arguments *)

\* <<clkdivide, cpol, cpha>>: in range, and one out of the range of the fields
InitArgs == { <<10, 1, 1>>, <<4095, 0, 1>>, <<4106, 3, 2>> }

\* 0xA5, 0xFF
ByteArgs == {165, 255}

\* 0x00FF, 0x2077, 0x8F00, 0xA55A, 0xFFFF
WordArgs == {255, 8311, 36608, 42330, 65535}

\* register addresses 0x20, 0xA3; values 0x00, 0x88
WriteAddrArgs == {32, 163}
WriteValArgs == {0, 136}

\* 0x0F, 0x28, 0x8F
ReadAddrArgs == {15, 40, 143}

H_spiInit(clkdivide, cpol, cpha) ==
    /\ mainf.pc = "off"
    /\ calls < MaxCalls
    /\ Call_spiInit(clkdivide, cpol, cpha)
    /\ calls' = calls + 1
    /\ UNCHANGED mainf

H_spiSendReceive(send) ==
    /\ mainf.pc = "off"
    /\ calls < MaxCalls
    /\ Call_spiSendReceive(send)
    /\ calls' = calls + 1
    /\ UNCHANGED mainf

H_spiSendReceive16(data) ==
    /\ mainf.pc = "off"
    /\ calls < MaxCalls
    /\ Call_spiSendReceive16(data)
    /\ calls' = calls + 1
    /\ UNCHANGED mainf

H_spiWrite(address, value) ==
    /\ mainf.pc = "off"
    /\ calls < MaxCalls
    /\ Call_spiWrite(address, value)
    /\ calls' = calls + 1
    /\ UNCHANGED mainf

H_spiRead(address) ==
    /\ mainf.pc = "off"
    /\ calls < MaxCalls
    /\ Call_spiRead(address)
    /\ calls' = calls + 1
    /\ UNCHANGED mainf

Harness ==
    \/ \E a \in InitArgs : H_spiInit(a[1], a[2], a[3])
    \/ \E b \in ByteArgs : H_spiSendReceive(b)
    \/ \E w \in WordArgs : H_spiSendReceive16(w)
    \/ \E a \in WriteAddrArgs, v \in WriteValArgs : H_spiWrite(a, v)
    \/ \E a \in ReadAddrArgs : H_spiRead(a)

-----------------------------------------------------------------------------
(* Specifications *)

GpioQuiet ==
    /\ g_pre = gpio
    /\ g_call = NoGpioCall
    /\ g_calls = 0

SpiQuiet ==
    /\ txfifo = <<>>
    /\ rxfifo = <<>>
    /\ xfer = [tx |-> 0, rx |-> 0]
    /\ per = PerIdle
    /\ regs = RegsInit
    /\ plog = <<>>
    /\ call = NoCall
    /\ prev_call = NoCall
    /\ s_pre = [spi |-> spi, gpio |-> gpio]
    /\ f16 = F16Off
    /\ f8 = F8Off
    /\ trace = <<>>
    /\ calls = 0

\* The SPI driver: main, or a harness, on a board whose registers hold the
\* reset values or what other software left.
Init ==
    /\ hdr = "ThingPlus"
    /\ gpio \in GpioImages
    /\ spi \in SpiImages
    /\ mainf \in {MainOff, MainStart}
    /\ GpioQuiet
    /\ SpiQuiet

Driver ==
    \/ SSR_L64
    \/ SSR_L65
    \/ SSR_L66
    \/ SSR_L67
    \/ S16_L78
    \/ S16_L79
    \/ S16_L80
    \/ S16_L81
    \/ S16_L82
    \/ S16_L84

Next ==
    \/ Main
    \/ Harness
    \/ Driver
    \/ HW_Frame

Spec == Init /\ [][Next]_vars

\* The same program on a processor that keeps executing: a driver step
\* that stays possible is taken.  Nothing is assumed of the SPI controller
\* and the device, which may stay silent, nor of the callers.
SpecLive == Init /\ [][Next]_vars /\ WF_vars(Driver)

\* The GPIO pin API alone, built against either header.
InitGPIO ==
    /\ hdr \in Headers
    /\ gpio \in GpioImages
    /\ spi = SpiReset
    /\ mainf = MainOff
    /\ GpioQuiet
    /\ SpiQuiet

NextGPIO ==
    \/ \E p \in PinArgs, f \in ModeArgs : Do_pinMode(p, f)
    \/ \E p \in PinArgs, v \in ValArgs : Do_digitalWrite(p, v)
    \/ \E p \in PinArgs : Do_digitalRead(p)

SpecGPIO == InitGPIO /\ [][NextGPIO]_vars

-----------------------------------------------------------------------------
(* Properties: helpers *)

\* the events of one kind in `trace`, in order
Events(kind) == LET Is(e) == e.ev = kind IN SelectSeq(trace, Is)

\* the values of the events of one kind
Values(kind) == [i \in 1..Len(Events(kind)) |-> Events(kind)[i].v]

IsPrefix(s, t) == Len(s) <= Len(t) /\ s = SubSeq(t, 1, Len(s))

WordLevel == {"spiSendReceive16", "spiWrite", "spiRead"}

-----------------------------------------------------------------------------
(* C1 *)

\* C1: spiSendReceive16(x) makes exactly two spiSendReceive calls, the first
\* with (x >> 8) & 0xFF and the second with x & 0xFF, and returns
\* (r1 << 8) | r2 for the bytes r1, r2 those calls returned.  While the call
\* runs, the calls made so far are a prefix of that pair.
C1_TransferWordChain ==
    /\ f16.pc # "off" =>
          IsPrefix(Values("call8"), <<(f16.data \div 256) % 256, f16.data % 256>>)
    /\ (call.fn = "spiSendReceive16" /\ call.st = "done") =>
          /\ Values("call8") = <<(call.a \div 256) % 256, call.a % 256>>
          /\ Len(Values("ret8")) = 2
          /\ call.ret = Values("ret8")[1] * 256 + Values("ret8")[2]

\* spiSendReceive16(0x2077) has returned 0xFF00: r1 = 0xFF, r2 = 0x00
C1_Witness ==
    /\ call.fn = "spiSendReceive16"
    /\ call.st = "done"
    /\ call.a = 8311
    /\ Values("ret8") = <<255, 0>>
    /\ call.ret = 65280

-----------------------------------------------------------------------------
(* C2 *)

\* C2: within a spiSendReceive call the write to txdata comes directly after
\* ip.txwm was read as set and carries the call's argument, the read of
\* rxdata comes directly after ip.rxwm was read as set and after the write
\* to txdata, and the value returned is the value read from rxdata.
C2_ByteTransferOrder ==
    \A i \in 1..Len(trace) :
        /\ trace[i].ev = "tx" =>
              /\ i >= 3
              /\ trace[i - 1] = Ev("txwm", 1)
              /\ trace[i - 2] = Ev("call8", trace[i].v)
        /\ trace[i].ev = "rx" =>
              /\ i >= 3
              /\ trace[i - 1] = Ev("rxwm", 1)
              /\ trace[i - 2].ev = "tx"
        /\ trace[i].ev = "ret8" =>
              /\ i >= 2
              /\ trace[i - 1] = Ev("rx", trace[i].v)

\* spiSendReceive(0xA5) has returned what it read from rxdata
C2_Witness ==
    /\ call.fn = "spiSendReceive"
    /\ call.st = "done"
    /\ call.a = 165
    /\ Len(trace) = 6
    /\ trace[3] = Ev("tx", 165)
    /\ trace[5] = Ev("rx", call.ret)

-----------------------------------------------------------------------------
(* C3 *)

\* the 16-bit word a word-level call has put on the bus
WordSent == Values("tx")[1] * 256 + Values("tx")[2]

\* C3 (as claimed): spiWrite(a, v) sends the word (a << 8) | v and bit 15
\* of the word sent is clear for every a.
C3_WriteMarkerClear ==
    (call.fn = "spiWrite" /\ call.st = "done") =>
        /\ WordSent = call.a * 256 + call.b
        /\ WordSent < 32768

-----------------------------------------------------------------------------
(* C4 *)

\* C4 (as claimed): spiRead(a) sends the word (a << 8) | 0x8000 | a, the
\* argument of the transferWord call the claim equates it with.
C4_ReadWordOriginal ==
    (call.fn = "spiRead" /\ call.st = "done") =>
        WordSent = BitOr(BitOr(call.a * 256, 32768), call.a)

\* C4 (amended): spiRead(a) sends the word (a << 8) | 0x8000: a in the high
\* byte with bit 15 set whatever a's top bit, 0x00 in the low byte; it
\* returns the second byte received, the first being discarded.
C4_ReadWord ==
    (call.fn = "spiRead" /\ call.st = "done") =>
        /\ Values("tx") = <<128 + (call.a % 128), 0>>
        /\ Len(Values("rx")) = 2
        /\ call.ret = Values("rx")[2]

\* spiRead(0x0F) has sent 0x8F00 and returned the second byte, which
\* differs from the first
C4_Witness ==
    /\ call.fn = "spiRead"
    /\ call.st = "done"
    /\ call.a = 15
    /\ Values("tx") = <<143, 0>>
    /\ Values("rx") = <<255, 51>>
    /\ call.ret = 51

-----------------------------------------------------------------------------
(* C5, C6, C8: the GPIO pin API (checked under SpecGPIO) *)

\* The logical pins that exist: D0..D13 and D15..D19.
ValidPins == (0..19) \ {14}

\* The GPIO bit a valid pin stands for.  EasyREDVIO.h documents D0..D7 as
\* GPIO16..23, D8..D13 as GPIO0..5 and D15..D19 as GPIO9..13;
\* EasyREDVIO_ThingPlus.h takes the GPIO bit number itself.
BitOf(h, p) ==
    IF h = "ThingPlus" THEN p
    ELSE IF p <= 7 THEN p + 16
    ELSE IF p <= 13 THEN p - 8
    ELSE p - 6

\* the bits in which two register values differ
Diff(a, b) == (a \ b) \cup (b \ a)

\* C5: on a valid pin, pinMode and digitalWrite change no bit of any GPIO
\* register other than the pin's bit, and digitalRead changes nothing and
\* returns the pin's bit of input_val.
C5_OnlyThePinsBit ==
    (g_call.fn # "none" /\ g_call.pin \in ValidPins) =>
        LET bit == BitOf(g_call.hdr, g_call.pin)
        IN  /\ g_call.fn \in {"pinMode", "digitalWrite"} =>
                  \A r \in GpioRegs : Diff(gpio[r], g_pre[r]) \subseteq {bit}
            /\ g_call.fn = "digitalRead" =>
                  /\ gpio = g_pre
                  /\ g_call.ret = (IF bit \in g_pre.input_val THEN 1 ELSE 0)

\* digitalWrite(13, LOW) through EasyREDVIO.h has cleared GPIO5 of
\* output_val, which was set, and left the other set bits set
C5_Witness ==
    /\ g_call = [fn |-> "digitalWrite", hdr |-> "EasyREDVIO", pin |-> 13,
                 arg |-> LOW, ret |-> 0]
    /\ 5 \in g_pre.output_val
    /\ gpio.output_val = g_pre.output_val \ {5}
    /\ gpio.output_val # {}

\* C6 (as claimed): a pinMode or digitalWrite call on pin 14 or on a pin
\* >= 20 changes no bit of any GPIO register.
C6_InvalidPinNoOp ==
    ( /\ g_call.fn \in {"pinMode", "digitalWrite"}
      /\ g_call.hdr = "EasyREDVIO"
      /\ (g_call.pin = 14 \/ g_call.pin >= 20) ) =>
        gpio = g_pre

\* C8: pinMode on a valid pin: INPUT sets the pin's bit of input_en; OUTPUT
\* sets it in output_en and clears it in iof_en; GPIO_IOF0 clears it in
\* iof_sel and sets it in iof_en; any other mode changes nothing.  Nothing
\* else changes.
C8_PinModeEffect ==
    (g_call.fn = "pinMode" /\ g_call.pin \in ValidPins) =>
        LET bit == BitOf(g_call.hdr, g_call.pin)
        IN  gpio =
              CASE g_call.arg = INPUT ->
                      [g_pre EXCEPT !.input_en = @ \cup {bit}]
                [] g_call.arg = OUTPUT ->
                      [g_pre EXCEPT !.output_en = @ \cup {bit}, !.iof_en = @ \ {bit}]
                [] g_call.arg = GPIO_IOF0 ->
                      [g_pre EXCEPT !.iof_sel = @ \ {bit}, !.iof_en = @ \cup {bit}]
                [] OTHER -> g_pre

\* pinMode(11, OUTPUT) through EasyREDVIO.h has set GPIO3 of output_en and
\* cleared GPIO3 of iof_en, both of which it found the other way
C8_Witness ==
    /\ g_call = [fn |-> "pinMode", hdr |-> "EasyREDVIO", pin |-> 11,
                 arg |-> OUTPUT, ret |-> 0]
    /\ 3 \notin g_pre.output_en
    /\ 3 \in g_pre.iof_en
    /\ 3 \in gpio.output_en
    /\ 3 \notin gpio.iof_en

-----------------------------------------------------------------------------
(* C7 *)

\* the arguments fit the fields they are written to (clkdivide 0..4095,
\* cpol and cpha one bit each)
InitArgsInRange == call.a <= 4095 /\ call.b <= 1 /\ call.c <= 1

-----------------------------------------------------------------------------
(* C9 *)

\* C9: once main has made its identity read (line 109), the value read is
\* 0x33, and the first three register accesses the accelerometer carried out
\* are the write of 0x77 to 0x20, the write of 0x88 to 0x23 and the read of
\* 0x0F, in that order.
C9_MainEndToEnd ==
    /\ (mainf.pc = "L109r" /\ call.st = "done") => call.ret = 51
    /\ mainf.pc \notin {"off", "L102", "L105", "L106", "L109", "L109r"} =>
          /\ mainf.debug = 51
          /\ Len(plog) >= 3
          /\ SubSeq(plog, 1, 3) = << [rw |-> "w", reg |-> 32, val |-> 119],
                                     [rw |-> "w", reg |-> 35, val |-> 136],
                                     [rw |-> "r", reg |-> 15, val |-> 51] >>

\* main has stored the identity byte and the accelerometer holds the two
\* configuration values
C9_Witness ==
    /\ mainf.pc = "L114"
    /\ mainf.debug = 51
    /\ regs[32] = 119
    /\ regs[35] = 136
    /\ Len(plog) = 3

-----------------------------------------------------------------------------
(* C10 *)

\* position of the first / last event of a kind in `trace` (0: none)
FirstAt(kind) ==
    IF \E i \in 1..Len(trace) : trace[i].ev = kind
    THEN CHOOSE i \in 1..Len(trace) :
            trace[i].ev = kind /\ \A j \in 1..(i - 1) : trace[j].ev # kind
    ELSE 0

LastAt(kind) ==
    IF \E i \in 1..Len(trace) : trace[i].ev = kind
    THEN CHOOSE i \in 1..Len(trace) :
            trace[i].ev = kind /\ \A j \in (i + 1)..Len(trace) : trace[j].ev # kind
    ELSE 0

\* C10: in a spiSendReceive16 call csmode is HOLD from before the first
\* write to txdata until after the second read of rxdata; it is written to
\* AUTO only after both byte transfers, and it is AUTO when the call has
\* returned, whatever it was on entry.
C10_ChipSelectHeld ==
    /\ f16.pc \in {"L79", "L79c", "L80", "L80c", "L81", "L82"} => spi.csmode = 2
    /\ (f16.pc # "off" \/ (call.fn \in WordLevel /\ call.st = "done")) =>
          \A i \in 1..Len(trace) :
              /\ trace[i].ev \in {"tx", "rx"} =>
                    \E j \in 1..(i - 1) :
                        /\ trace[j] = Ev("csmode", 2)
                        /\ \A k \in j..i : trace[k] # Ev("csmode", 0)
              /\ trace[i] = Ev("csmode", 0) =>
                    /\ Len(Values("rx")) = 2
                    /\ LastAt("rx") < i
    /\ (call.fn \in WordLevel /\ call.st = "done") =>
          /\ spi.csmode = 0
          /\ trace[Len(trace) - 1] = Ev("csmode", 0)

\* a spiSendReceive16 call entered with csmode OFF has returned with
\* csmode AUTO after two byte transfers under HOLD
C10_Witness ==
    /\ call.fn = "spiSendReceive16"
    /\ call.st = "done"
    /\ s_pre.spi.csmode = CS_OFF
    /\ spi.csmode = CS_AUTO
    /\ FirstAt("csmode") = 1
    /\ FirstAt("tx") = 4
    /\ LastAt("rx") = 12

-----------------------------------------------------------------------------
(* C11 (checked under SpecLive) *)

\* spiSendReceive is in one of its wait loops and the awaited flag is clear
Waiting ==
    \/ f8.pc = "L64" /\ ip_txwm = 0
    \/ f8.pc = "L66" /\ ip_rxwm = 0

\* C11: spiSendReceive has no timeout and no error outcome.  While the flag
\* it waits for is clear, no step takes it out of its loop, and neither it
\* nor the spiSendReceive16, spiWrite or spiRead call around it returns; so
\* a flag that is never set holds the call for ever.  And every
\* spiSendReceive call eventually returns, except in the runs where from
\* some moment on the awaited flag stays clear: if each awaited flag is
\* eventually set (it then stays set until the loop reads it), every call
\* returns.
C11_NoTimeout ==
    /\ [][ Waiting => /\ f8'.pc = f8.pc
                      /\ f16'.pc = f16.pc
                      /\ call'.st = "run" ]_vars
    /\ \/ [](f8.pc # "off" => <>(f8.pc = "off"))
       \/ <>[]Waiting

\* spiWrite(0x20, 0x88) entered on reset registers (txmark 0): its first
\* spiSendReceive waits at line 64 for a flag that is clear
C11_Witness ==
    /\ call = [fn |-> "spiWrite", a |-> 32, b |-> 136, c |-> 0, ret |-> 0, st |-> "run"]
    /\ f16.pc = "L79c"
    /\ f8.pc = "L64"
    /\ spi.txmark = 0
    /\ ip_txwm = 0

-----------------------------------------------------------------------------
(* C12 *)

\* txdata writes not yet answered by an rxdata read
Outstanding == xfer.tx - xfer.rx

\* C12: writes of txdata and reads of rxdata stay balanced.  Whenever no
\* call is running, as many bytes have been written to txdata as have been
\* read from rxdata, and the call that returned made one write and one read
\* (spiSendReceive) or two of each (spiSendReceive16, spiWrite, spiRead).
\* At any moment at most one written byte has not been answered by a read,
\* so no second byte is written before the response to the first is read.
\* With the device returning one byte per byte sent, that byte is the only
\* one in the FIFOs, and both FIFOs are empty whenever a call has returned.
C12_TransfersBalanced ==
    /\ Outstanding \in {0, 1}
    /\ Len(Events("tx")) - Len(Events("rx")) = Outstanding
    /\ Len(txfifo) + Len(rxfifo) = Outstanding
    /\ f8.pc \in {"off", "L64", "L65"} => Outstanding = 0
    /\ call.st # "run" =>
          /\ xfer.tx = xfer.rx
          /\ txfifo = <<>>
          /\ rxfifo = <<>>
    /\ call.st = "done" /\ call.fn = "spiSendReceive" =>
          Len(Events("tx")) = 1 /\ Len(Events("rx")) = 1
    /\ call.st = "done" /\ call.fn \in WordLevel =>
          Len(Events("tx")) = 2 /\ Len(Events("rx")) = 2

\* a byte-level call followed by a word-level one have both returned: three
\* bytes written and three read in all, two of each by the second call
C12_Witness ==
    /\ prev_call.fn = "spiSendReceive"
    /\ call.fn = "spiRead"
    /\ call.st = "done"
    /\ xfer = [tx |-> 3, rx |-> 3]
    /\ rxfifo = <<>>

=============================================================================
